---- MODULE Spec2Model ----
(***************************************************************************)
(* A model of the Quivr sync plugin (src/main.ts): the settings, the       *)
(* local vault, the remote knowledge store, and the asynchronous control   *)
(* flow of exploreAndUpload, fetchFiles, createFolder and uploadFile, one  *)
(* step per stretch of code between two suspension points (await).         *)
(***************************************************************************)
EXTENDS Naturals, Sequences, FiniteSets, TLC

(***************************************************************************)
(* Bounds of the model.                                                    *)
(***************************************************************************)
\* longest local vault (number of documents)
MaxFiles == 3
\* most items the remote holds at top level
MaxRemote == 3
\* most settings edits in one behaviour
MaxEdits == 1

(***************************************************************************)
(* JavaScript values.  Strings are TLA+ strings; null and undefined are    *)
(* two values that are no id, name or key of the model.                    *)
(***************************************************************************)
NULL == "<null>"
UNDEFINED == "<undefined>"

\* a test that only rejects null
Truthy_NotNull(v) == v # NULL

\* what `if (v)` tests for a string | null | undefined
Truthy(v) == v \notin {NULL, UNDEFINED, ""}

(***************************************************************************)
(* The local vault: documents with a base name, an extension and a         *)
(* content.  TFile.name is the base name with the extension.               *)
(***************************************************************************)
FilePool ==
  << [basename |-> "paper", extension |-> "pdf", content |-> "%PDF"],
     [basename |-> "notes", extension |-> "md",  content |-> "# Hello"],
     [basename |-> "todo",  extension |-> "md",  content |-> ""],
     [basename |-> "ideas", extension |-> "md",  content |-> "- [ ] x"] >>

FileName(file) == file.basename \o "." \o file.extension

\* the vaults of the model: the first n documents of the pool
Vaults ==
  {SubSeq(FilePool, 1, n) : n \in 0..(IF MaxFiles < Len(FilePool) THEN MaxFiles ELSE Len(FilePool))}

\* app.vault.getMarkdownFiles(): the documents of the vault whose extension is md
getMarkdownFiles(v) == SelectSeq(v, LAMBDA f : f.extension = "md")

(***************************************************************************)
(* The remote store: top-level items, in the order the listing returns them*)
(***************************************************************************)
ItemPool ==
  << [id |-> "f1", file_name |-> "obsidian-sync", is_folder |-> TRUE,  parent_id |-> NULL],
     [id |-> "x1", file_name |-> "obsidian-sync", is_folder |-> FALSE, parent_id |-> NULL],
     [id |-> "",   file_name |-> "obsidian-sync", is_folder |-> TRUE,  parent_id |-> NULL],
     [id |-> "o1", file_name |-> "other",         is_folder |-> TRUE,  parent_id |-> NULL] >>

RECURSIVE Arrangements(_, _)
\* the sequences of at most n distinct elements of the set S
Arrangements(S, n) ==
  IF n = 0 \/ S = {} THEN {<<>>}
  ELSE {<<>>} \cup UNION {{<<e>> \o t : t \in Arrangements(S \ {e}, n - 1)} : e \in S}

Range(s) == {s[i] : i \in 1..Len(s)}

\* the remote at the start leaves room for one created folder at least
InitialRemotes == Arrangements(Range(ItemPool), MaxRemote - 1)

\* the ids the service gives to the folders it creates
NewIds == <<"n1", "n2", "n3", "n4", "n5", "n6">>

ApiKeys == {"", "k1"}

(***************************************************************************)
(* JSON.  A JSON object text is modelled by its members in order, each a   *)
(* key with the text of its value; a member whose value is undefined is    *)
(* left out, a string is quoted, null and booleans are bare words.         *)
(***************************************************************************)
Quote(s) == "\"" \o s \o "\""

JsonString(s) == IF s = NULL THEN "null" ELSE Quote(s)

JsonBool(b) == IF b THEN "true" ELSE "false"

\* JSON.stringify of an AddKnowledgeFileData
JSONstringify(kd) ==
  (IF kd.parent_id = UNDEFINED THEN <<>>
   ELSE << <<"parent_id", JsonString(kd.parent_id)>> >>)
  \o << <<"file_name", JsonString(kd.file_name)>> >>
  \o << <<"is_folder", JsonBool(kd.is_folder)>> >>

\* every string a knowledge_data member of the model can hold
Strings ==
  {FileName(FilePool[i]) : i \in 1..Len(FilePool)}
  \cup {ItemPool[i].id : i \in 1..Len(ItemPool)}
  \cup Range(NewIds) \cup {"obsidian-sync"}

JsonStringValue(text) ==
  IF text = "null" THEN NULL ELSE CHOOSE s \in Strings : Quote(s) = text

JsonMember(json, key) ==
  LET hits == SelectSeq(json, LAMBDA m : m[1] = key)
  IN  IF hits = <<>> THEN UNDEFINED ELSE hits[1][2]

\* what the service reads out of a knowledge_data field
JSONparse(json) ==
  [parent_id |-> IF JsonMember(json, "parent_id") = UNDEFINED THEN UNDEFINED
                 ELSE JsonStringValue(JsonMember(json, "parent_id")),
   file_name |-> JsonStringValue(JsonMember(json, "file_name")),
   is_folder |-> JsonMember(json, "is_folder") = "true"]

(***************************************************************************)
(* Requests.                                                               *)
(***************************************************************************)
NoFile == [name |-> UNDEFINED, content |-> UNDEFINED, type |-> UNDEFINED]

NoRequest == [method |-> "none"]

Bearer(apiKey) == "Bearer " \o apiKey

\* the request of fetchFiles
ListRequest(apiKey, caller) ==
  [method |-> "GET", url |-> "/knowledge/files", authorization |-> Bearer(apiKey),
   knowledge_data |-> <<>>, file |-> NoFile, caller |-> caller]

\* a create-folder body that does not say it is a folder
CreateFolderRequest_NotAFolder(apiKey, folderName) ==
  [method |-> "POST", url |-> "/knowledge/", authorization |-> Bearer(apiKey),
   knowledge_data |-> << <<"parent_id", "null">>,
                         <<"file_name", "\"" \o folderName \o "\"">>,
                         <<"is_folder", "false">> >>,
   file |-> NoFile, caller |-> "exploreAndUpload"]

\* the request of createFolder(folderName): a hand-written multipart body
CreateFolderRequest(apiKey, folderName) ==
  [method |-> "POST", url |-> "/knowledge/", authorization |-> Bearer(apiKey),
   knowledge_data |-> << <<"parent_id", "null">>,
                         <<"file_name", "\"" \o folderName \o "\"">>,
                         <<"is_folder", "true">> >>,
   file |-> NoFile, caller |-> "exploreAndUpload"]

\* addKnowledgeFile: the form data posted through the axios instance
addKnowledgeFile(knowledgeData, file, authorization) ==
  [method |-> "POST", url |-> "/knowledge/", authorization |-> authorization,
   knowledge_data |-> JSONstringify(knowledgeData),
   file |-> file, caller |-> "exploreAndUpload"]

\* a blob that is always markdown
BlobType_AlwaysMarkdown(file) == "text/markdown"

\* the content type uploadFile gives the blob
BlobType(file) == IF file.extension = "md" THEN "text/markdown" ELSE "application/pdf"

\* the request uploadFile builds once the document is read
UploadRequest(apiKey, file, fileContent, parentId) ==
  addKnowledgeFile(
    [parent_id |-> parentId, file_name |-> FileName(file), is_folder |-> FALSE],
    [name |-> FileName(file), content |-> fileContent, type |-> BlobType(file)],
    Bearer(apiKey))

IsList(r) == r.method = "GET"
IsCreateFolder(r) == r.method = "POST" /\ r.file = NoFile
IsUpload(r) == r.method = "POST" /\ r.file # NoFile

(***************************************************************************)
(* What the awaited calls give back.  requestUrl resolves with a response  *)
(* (status, json) or throws (no connection, a timeout, a status >= 400);   *)
(* axios resolves on a 2xx status and throws on anything else.             *)
(***************************************************************************)
Response(status, json) == [thrown |-> FALSE, status |-> status, json |-> json]

Thrown == [thrown |-> TRUE]

Return(value, said) == [raised |-> FALSE, value |-> value, notices |-> said]

Raise == [raised |-> TRUE, value |-> UNDEFINED, notices |-> <<>>]

\* a fetchFiles without its catch
fetchFiles_NoCatch(o) ==
  IF o.thrown THEN Raise
  ELSE IF o.status = 200 THEN Return(o.json, <<>>)
  ELSE Return(<<>>, <<"Failed to fetch files">>)

\* fetchFiles, from the outcome of its requestUrl on
fetchFiles(o) ==
  IF o.thrown THEN Return(<<>>, <<"Error fetching files. Check console for details.">>)
  ELSE IF o.status = 200 THEN Return(o.json, <<>>)
  ELSE Return(<<>>, <<"Failed to fetch files">>)

\* a createFolder that reads the id whatever the status
createFolder_AnyStatus(folderName, o) ==
  IF o.thrown THEN Return(NULL, <<"Error creating folder \"" \o folderName \o "\".">>)
  ELSE Return(o.json.id, <<"Folder \"" \o folderName \o "\" created successfully">>)

\* createFolder(folderName), from the outcome of its requestUrl on
createFolder(folderName, o) ==
  IF o.thrown THEN Return(NULL, <<"Error creating folder \"" \o folderName \o "\".">>)
  ELSE IF o.status = 200
    THEN Return(o.json.id, <<"Folder \"" \o folderName \o "\" created successfully">>)
  ELSE Return(NULL, <<"Failed to create folder \"" \o folderName \o "\".", "response.json">>)

\* an uploadFile without its catch
uploadFile_NoCatch(file, o) ==
  IF o.thrown THEN Raise
  ELSE Return(UNDEFINED, <<"File uploaded successfully: " \o FileName(file)>>)

\* uploadFile(file, parentId), from the outcome of vault.read or of the post on
uploadFile(file, o) ==
  IF o.thrown THEN Return(UNDEFINED, <<"Error uploading file \"" \o FileName(file) \o "\"">>)
  ELSE Return(UNDEFINED, <<"File uploaded successfully: " \o FileName(file)>>)

\* a find that forgets is_folder
FindExistingFolder_AnyKind(fs) ==
  LET hits == {i \in 1..Len(fs) : fs[i].file_name = "obsidian-sync"}
  IN  IF hits = {} THEN 0 ELSE CHOOSE i \in hits : \A j \in hits : i <= j

\* a search that keeps the last matching folder
FindExistingFolder_Last(fs) ==
  LET hits == {i \in 1..Len(fs) : fs[i].file_name = "obsidian-sync" /\ fs[i].is_folder}
  IN  IF hits = {} THEN 0 ELSE CHOOSE i \in hits : \A j \in hits : i >= j

\* files.find(file => file.file_name === 'obsidian-sync' && file.is_folder):
\* the position of the first such item, 0 when there is none
FindExistingFolder(fs) ==
  LET hits == {i \in 1..Len(fs) : fs[i].file_name = "obsidian-sync" /\ fs[i].is_folder}
  IN  IF hits = {} THEN 0 ELSE CHOOSE i \in hits : \A j \in hits : i <= j

(***************************************************************************)
(* The state.                                                              *)
(***************************************************************************)
\* most sync invocations running at the same time
MaxSyncs == 2

Procs == 1..MaxSyncs

VARIABLES
  settings,              \* this.settings
  data,                  \* what saveData persisted last
  edits,                 \* settings edits so far
  vault,                 \* the local documents, in enumeration order
  remote,                \* the top-level items of the remote store
  pc,                    \* where each invocation is suspended
  entry,                 \* what started it: the command or the ribbon icon
  markdownFiles,         \* exploreAndUpload's markdownFiles
  files,                 \* exploreAndUpload's files
  obsidianSyncFolderId,  \* exploreAndUpload's obsidianSyncFolderId
  idx,                   \* the position of the for loop in markdownFiles
  inflight,              \* the request each invocation awaits
  calls,                 \* the requests each invocation has issued
  uploadFileCalls,       \* the calls of uploadFile each invocation has made
  notices                \* the notices each invocation has shown

vars == <<settings, data, edits, vault, remote, pc, entry, markdownFiles, files,
          obsidianSyncFolderId, idx, inflight, calls, uploadFileCalls, notices>>

local == <<markdownFiles, files, obsidianSyncFolderId, idx>>

\* the state once the plugin is loaded: `running` invocations can be started
Loaded(vaults, remotes, running) ==
  /\ settings \in [apiKey : ApiKeys]
  /\ data = settings
  /\ edits = 0
  /\ vault \in vaults
  /\ remote \in remotes
  /\ pc = [p \in Procs |-> IF p <= running THEN "idle" ELSE "off"]
  /\ entry = [p \in Procs |-> "none"]
  /\ markdownFiles = [p \in Procs |-> <<>>]
  /\ files = [p \in Procs |-> <<>>]
  /\ obsidianSyncFolderId = [p \in Procs |-> NULL]
  /\ idx = [p \in Procs |-> 0]
  /\ inflight = [p \in Procs |-> NoRequest]
  /\ calls = [p \in Procs |-> <<>>]
  /\ uploadFileCalls = [p \in Procs |-> <<>>]
  /\ notices = [p \in Procs |-> <<>>]

\* one invocation at a time, any number of them one after the other
Init == Loaded(Vaults, InitialRemotes, 1)

\* one invocation at a time, on a remote of one item at most
InitSmall == Loaded(Vaults, {r \in InitialRemotes : Len(r) <= 1}, 1)

\* overlapping invocations, on an empty remote and with the key set
InitOverlap ==
  Loaded(Vaults, {<<>>}, MaxSyncs) /\ settings.apiKey = "k1"

\* uploadFile(file, parentId) called on any document of the pool with any
\* parent id, suspended at its vault.read
InitUploadFile ==
  /\ settings \in [apiKey : ApiKeys]
  /\ data = settings
  /\ edits = 0
  /\ remote = <<>>
  /\ \E file \in Range(FilePool), parentId \in {"f1", "n1", NULL} :
       /\ vault = <<file>>
       /\ pc = [p \in Procs |-> IF p = 1 THEN "await_read" ELSE "off"]
       /\ entry = [p \in Procs |-> IF p = 1 THEN "ribbon" ELSE "none"]
       /\ markdownFiles = [p \in Procs |-> IF p = 1 THEN <<file>> ELSE <<>>]
       /\ obsidianSyncFolderId = [p \in Procs |-> IF p = 1 THEN parentId ELSE NULL]
       /\ idx = [p \in Procs |-> IF p = 1 THEN 1 ELSE 0]
       /\ uploadFileCalls =
            [p \in Procs |-> IF p = 1 THEN <<[file |-> file, parentId |-> parentId,
                                               outcome |-> "pending"]>> ELSE <<>>]
  /\ files = [p \in Procs |-> <<>>]
  /\ inflight = [p \in Procs |-> NoRequest]
  /\ calls = [p \in Procs |-> <<>>]
  /\ notices = [p \in Procs |-> <<>>]

\* an exploreAndUpload that lists the remote again when its loop is over
Finish_Relist(p, said, issued) ==
  /\ pc' = [pc EXCEPT ![p] = "await_command_fetchFiles"]
  /\ inflight' = [inflight EXCEPT ![p] = ListRequest(settings.apiKey, "exploreAndUpload")]
  /\ calls' = [calls EXCEPT ![p] =
       Append(issued, ListRequest(settings.apiKey, "exploreAndUpload"))]
  /\ notices' = [notices EXCEPT ![p] = said]

(***************************************************************************)
(* The control flow shared by the steps of exploreAndUpload.               *)
(***************************************************************************)
\* exploreAndUpload has returned: the ribbon icon's callback ends; the
\* command's callback goes on to its own fetchFiles (main.ts 68-69)
Finish(p, said, issued) ==
  IF entry[p] = "ribbon"
  THEN /\ pc' = [pc EXCEPT ![p] = "done"]
       /\ inflight' = [inflight EXCEPT ![p] = NoRequest]
       /\ calls' = [calls EXCEPT ![p] = issued]
       /\ notices' = [notices EXCEPT ![p] = said]
  ELSE /\ pc' = [pc EXCEPT ![p] = "await_command_fetchFiles"]
       /\ inflight' = [inflight EXCEPT ![p] = ListRequest(settings.apiKey, "command")]
       /\ calls' = [calls EXCEPT ![p] = Append(issued, ListRequest(settings.apiKey, "command"))]
       /\ notices' = [notices EXCEPT ![p] =
            Append(said, "Finished uploading files. Fetching files from Quivr...")]

\* the call uploadFile(file, parentId), not yet returned
UploadFileCall(file, parentId) == [file |-> file, parentId |-> parentId, outcome |-> "pending"]

\* a loop that stops one document short
ForLoop_OneShort(p, i, folderId, said, issued, called) ==
  IF i < Len(markdownFiles[p])
  THEN /\ pc' = [pc EXCEPT ![p] = "await_read"]
       /\ idx' = [idx EXCEPT ![p] = i]
       /\ inflight' = [inflight EXCEPT ![p] = NoRequest]
       /\ calls' = [calls EXCEPT ![p] = issued]
       /\ uploadFileCalls' = [uploadFileCalls EXCEPT ![p] =
            Append(called, UploadFileCall(markdownFiles[p][i], folderId))]
       /\ notices' = [notices EXCEPT ![p] =
            Append(said, "Uploading file: " \o FileName(markdownFiles[p][i]))]
  ELSE /\ idx' = [idx EXCEPT ![p] = i]
       /\ uploadFileCalls' = [uploadFileCalls EXCEPT ![p] = called]
       /\ Finish(p, said, issued)

\* the for loop of exploreAndUpload, about to take the i-th document: the
\* next uploadFile runs up to its await of vault.read (main.ts 180-183, 189-191)
ForLoop(p, i, folderId, said, issued, called) ==
  IF i <= Len(markdownFiles[p])
  THEN /\ pc' = [pc EXCEPT ![p] = "await_read"]
       /\ idx' = [idx EXCEPT ![p] = i]
       /\ inflight' = [inflight EXCEPT ![p] = NoRequest]
       /\ calls' = [calls EXCEPT ![p] = issued]
       /\ uploadFileCalls' = [uploadFileCalls EXCEPT ![p] =
            Append(called, UploadFileCall(markdownFiles[p][i], folderId))]
       /\ notices' = [notices EXCEPT ![p] =
            Append(said, "Uploading file: " \o FileName(markdownFiles[p][i]))]
  ELSE /\ idx' = [idx EXCEPT ![p] = i]
       /\ uploadFileCalls' = [uploadFileCalls EXCEPT ![p] = called]
       /\ Finish(p, said, issued)

\* an exploreAndUpload that uploads whatever the folder id
Resolved_NoCheck(p, folderId, said, issued) ==
  /\ obsidianSyncFolderId' = [obsidianSyncFolderId EXCEPT ![p] = folderId]
  /\ ForLoop(p, 1, folderId, said, issued, <<>>)

\* exploreAndUpload from `if (obsidianSyncFolderId)` on (main.ts 179-186)
Resolved(p, folderId, said, issued) ==
  /\ obsidianSyncFolderId' = [obsidianSyncFolderId EXCEPT ![p] = folderId]
  /\ IF Truthy(folderId)
     THEN ForLoop(p, 1, folderId, said, issued, <<>>)
     ELSE /\ UNCHANGED <<idx, uploadFileCalls>>
          /\ Finish(p, Append(said, "Failed to determine folder ID for uploads."), issued)

\* an error nothing catches: the invocation's promise rejects
Abort(p) ==
  /\ pc' = [pc EXCEPT ![p] = "aborted"]
  /\ inflight' = [inflight EXCEPT ![p] = NoRequest]
  /\ UNCHANGED <<calls, uploadFileCalls, notices>>

\* an uploadFile call the loop does not wait for
Returned_NotAwaited(called, i, outcome) == called

\* uploadFile has returned with this outcome
Returned(called, i, outcome) == [called EXCEPT ![i].outcome = outcome]

(***************************************************************************)
(* The service.                                                            *)
(***************************************************************************)
\* GET /knowledge/files answers 200 with the items, another status, or fails
ListOutcomes == {Response(200, remote), Response(204, <<>>), Thrown}

\* the id of the next folder the service creates
FreshId ==
  LET free == {i \in 1..Len(NewIds) : \A k \in 1..Len(remote) : remote[k].id # NewIds[i]}
  IN  NewIds[CHOOSE i \in free : \A j \in free : i <= j]

\* the item POST /knowledge/ stores for a knowledge_data without a file
Stored(json) ==
  [id |-> FreshId, file_name |-> JSONparse(json).file_name,
   is_folder |-> JSONparse(json).is_folder, parent_id |-> JSONparse(json).parent_id]

\* what the service can answer to a create-folder request, with whether it
\* stored the folder
CreateFolderOutcomes ==
  { <<Response(200, [id |-> FreshId]), TRUE>>,
    <<Response(200, [id |-> UNDEFINED]), TRUE>>,
    <<Thrown, TRUE>>,
    <<Response(202, [id |-> UNDEFINED]), FALSE>>,
    <<Thrown, FALSE>> }

\* vault.read gives the document's content or fails
ReadOutcomes(file) == {Response(0, file.content), Thrown}

\* axios resolves (200, 201) or throws
UploadOutcomes == {Response(200, [id |-> "u"]), Response(201, [id |-> "u"]), Thrown}

(***************************************************************************)
(* The actions.                                                            *)
(***************************************************************************)
\* an exploreAndUpload that returns at once when there is nothing to upload
Start_NothingToDo(p, e) ==
  /\ pc[p] = "idle"
  /\ entry' = [entry EXCEPT ![p] = e]
  /\ markdownFiles' = [markdownFiles EXCEPT ![p] = getMarkdownFiles(vault)]
  /\ IF getMarkdownFiles(vault) = <<>> /\ e = "ribbon"
     THEN /\ pc' = [pc EXCEPT ![p] = "done"]
          /\ UNCHANGED <<inflight, calls, notices>>
     ELSE /\ pc' = [pc EXCEPT ![p] = "await_fetchFiles"]
          /\ inflight' = [inflight EXCEPT ![p] = ListRequest(settings.apiKey, "exploreAndUpload")]
          /\ calls' = [calls EXCEPT ![p] = <<ListRequest(settings.apiKey, "exploreAndUpload")>>]
          /\ notices' = [notices EXCEPT ![p] =
               IF e = "command" THEN <<"Starting sync to Quivr...", "Root folder">> ELSE <<>>]
  /\ UNCHANGED <<settings, data, edits, vault, remote, files, obsidianSyncFolderId, idx,
                 uploadFileCalls>>

\* a sync that waits for the running one to end
Start_Serialized(p, e) ==
  /\ pc[p] = "idle"
  /\ \A q \in Procs : pc[q] \in {"off", "idle", "done", "aborted"}
  /\ entry' = [entry EXCEPT ![p] = e]
  /\ markdownFiles' = [markdownFiles EXCEPT ![p] = getMarkdownFiles(vault)]
  /\ pc' = [pc EXCEPT ![p] = "await_fetchFiles"]
  /\ inflight' = [inflight EXCEPT ![p] = ListRequest(settings.apiKey, "exploreAndUpload")]
  /\ calls' = [calls EXCEPT ![p] = <<ListRequest(settings.apiKey, "exploreAndUpload")>>]
  /\ notices' = [notices EXCEPT ![p] =
       IF e = "command" THEN <<"Starting sync to Quivr...", "Root folder">> ELSE <<>>]
  /\ UNCHANGED <<settings, data, edits, vault, remote, files, obsidianSyncFolderId, idx,
                 uploadFileCalls>>

\* a sync that clears the key it has used
Start_ForgetsKey(p, e) ==
  /\ pc[p] = "idle"
  /\ entry' = [entry EXCEPT ![p] = e]
  /\ markdownFiles' = [markdownFiles EXCEPT ![p] = getMarkdownFiles(vault)]
  /\ pc' = [pc EXCEPT ![p] = "await_fetchFiles"]
  /\ inflight' = [inflight EXCEPT ![p] = ListRequest(settings.apiKey, "exploreAndUpload")]
  /\ calls' = [calls EXCEPT ![p] = <<ListRequest(settings.apiKey, "exploreAndUpload")>>]
  /\ notices' = [notices EXCEPT ![p] =
       IF e = "command" THEN <<"Starting sync to Quivr...", "Root folder">> ELSE <<>>]
  /\ settings' = [settings EXCEPT !.apiKey = ""]
  /\ data' = settings'
  /\ UNCHANGED <<edits, vault, remote, files, obsidianSyncFolderId, idx, uploadFileCalls>>

\* the command's callback (main.ts 63-69) or the ribbon icon's (89-91) starts
\* exploreAndUpload, which runs up to the await of fetchFiles's requestUrl
Start(p, e) ==
  /\ pc[p] = "idle"
  /\ entry' = [entry EXCEPT ![p] = e]
  /\ markdownFiles' = [markdownFiles EXCEPT ![p] = getMarkdownFiles(vault)]
  /\ pc' = [pc EXCEPT ![p] = "await_fetchFiles"]
  /\ inflight' = [inflight EXCEPT ![p] = ListRequest(settings.apiKey, "exploreAndUpload")]
  /\ calls' = [calls EXCEPT ![p] = <<ListRequest(settings.apiKey, "exploreAndUpload")>>]
  /\ notices' = [notices EXCEPT ![p] =
       IF e = "command" THEN <<"Starting sync to Quivr...", "Root folder">> ELSE <<>>]
  /\ UNCHANGED <<settings, data, edits, vault, remote, files, obsidianSyncFolderId, idx,
                 uploadFileCalls>>

\* an exploreAndUpload that lists once more when the listing threw
FetchFilesReturns_RetryOnce(p, o) ==
  /\ pc[p] = "await_fetchFiles"
  /\ IF o.thrown /\ Len(calls[p]) = 1
     THEN /\ calls' = [calls EXCEPT ![p] =
               Append(calls[p], ListRequest(settings.apiKey, "exploreAndUpload"))]
          /\ inflight' = [inflight EXCEPT ![p] = ListRequest(settings.apiKey, "exploreAndUpload")]
          /\ UNCHANGED <<settings, data, edits, vault, remote, pc, entry, local,
                         uploadFileCalls, notices>>
     ELSE
       /\ LET r == fetchFiles(o)
              found == FindExistingFolder(r.value)
              said == notices[p] \o r.notices \o <<"Found Quivr files">>
          IN  IF r.raised
              THEN Abort(p) /\ UNCHANGED local
              ELSE /\ files' = [files EXCEPT ![p] = r.value]
                   /\ IF found # 0
                      THEN Resolved(p, r.value[found].id,
                                    Append(said, "Found existing folder: " \o r.value[found].file_name),
                                    calls[p])
                      ELSE /\ pc' = [pc EXCEPT ![p] = "await_createFolder"]
                           /\ inflight' = [inflight EXCEPT ![p] =
                                CreateFolderRequest(settings.apiKey, "obsidian-sync")]
                           /\ calls' = [calls EXCEPT ![p] =
                                Append(calls[p], CreateFolderRequest(settings.apiKey, "obsidian-sync"))]
                           /\ notices' = [notices EXCEPT ![p] =
                                Append(said, "Creating new folder in Quivr...")]
                           /\ UNCHANGED <<obsidianSyncFolderId, idx, uploadFileCalls>>
       /\ UNCHANGED <<settings, data, edits, vault, remote, entry, markdownFiles>>

\* fetchFiles returns to exploreAndUpload (main.ts 164-177)
FetchFilesReturns(p, o) ==
  /\ pc[p] = "await_fetchFiles"
  /\ LET r == fetchFiles(o)
         found == FindExistingFolder(r.value)
         said == notices[p] \o r.notices \o <<"Found Quivr files">>
     IN  IF r.raised
         THEN Abort(p) /\ UNCHANGED local
         ELSE /\ files' = [files EXCEPT ![p] = r.value]
              /\ IF found # 0
                 THEN Resolved(p, r.value[found].id,
                               Append(said, "Found existing folder: " \o r.value[found].file_name),
                               calls[p])
                 ELSE /\ pc' = [pc EXCEPT ![p] = "await_createFolder"]
                      /\ inflight' = [inflight EXCEPT ![p] =
                           CreateFolderRequest(settings.apiKey, "obsidian-sync")]
                      /\ calls' = [calls EXCEPT ![p] =
                           Append(calls[p], CreateFolderRequest(settings.apiKey, "obsidian-sync"))]
                      /\ notices' = [notices EXCEPT ![p] =
                           Append(said, "Creating new folder in Quivr...")]
                      /\ UNCHANGED <<obsidianSyncFolderId, idx, uploadFileCalls>>
  /\ UNCHANGED <<settings, data, edits, vault, remote, entry, markdownFiles>>

\* createFolder returns to exploreAndUpload (main.ts 176-186); the service
\* has stored the folder (stored) or not, whatever it answers
CreateFolderReturns(p, o, stored) ==
  /\ pc[p] = "await_createFolder"
  /\ IF stored
     THEN /\ Len(remote) < MaxRemote
          /\ remote' = Append(remote, Stored(inflight[p].knowledge_data))
     ELSE remote' = remote
  /\ LET r == createFolder("obsidian-sync", o)
     IN  IF r.raised
         THEN Abort(p) /\ UNCHANGED <<obsidianSyncFolderId, idx>>
         ELSE Resolved(p, r.value, notices[p] \o r.notices, calls[p])
  /\ UNCHANGED <<settings, data, edits, vault, entry, markdownFiles, files>>

\* an uploadFile that sends the token the invocation started with
ReadReturns_TokenOfStart(p, o) ==
  /\ pc[p] = "await_read"
  /\ LET file == markdownFiles[p][idx[p]]
         r == uploadFile(file, o)
         request == [UploadRequest(settings.apiKey, file, o.json,
                                   uploadFileCalls[p][idx[p]].parentId)
                       EXCEPT !.authorization = calls[p][1].authorization]
     IN  IF ~o.thrown
         THEN /\ pc' = [pc EXCEPT ![p] = "await_addKnowledgeFile"]
              /\ inflight' = [inflight EXCEPT ![p] = request]
              /\ calls' = [calls EXCEPT ![p] = Append(calls[p], request)]
              /\ UNCHANGED <<notices, idx, uploadFileCalls>>
         ELSE IF r.raised
         THEN Abort(p) /\ UNCHANGED idx
         ELSE ForLoop(p, idx[p] + 1, obsidianSyncFolderId[p], notices[p] \o r.notices,
                      calls[p], Returned(uploadFileCalls[p], idx[p], "failed"))
  /\ UNCHANGED <<settings, data, edits, vault, remote, entry, markdownFiles, files,
                 obsidianSyncFolderId>>

\* vault.read returns to uploadFile (main.ts 191-208): the request is built
\* and posted, or the read's error is caught (211-213) and the loop goes on
ReadReturns(p, o) ==
  /\ pc[p] = "await_read"
  /\ LET file == markdownFiles[p][idx[p]]
         r == uploadFile(file, o)
         request == UploadRequest(settings.apiKey, file, o.json, uploadFileCalls[p][idx[p]].parentId)
     IN  IF ~o.thrown
         THEN /\ pc' = [pc EXCEPT ![p] = "await_addKnowledgeFile"]
              /\ inflight' = [inflight EXCEPT ![p] = request]
              /\ calls' = [calls EXCEPT ![p] = Append(calls[p], request)]
              /\ UNCHANGED <<notices, idx, uploadFileCalls>>
         ELSE IF r.raised
         THEN Abort(p) /\ UNCHANGED idx
         ELSE ForLoop(p, idx[p] + 1, obsidianSyncFolderId[p], notices[p] \o r.notices,
                      calls[p], Returned(uploadFileCalls[p], idx[p], "failed"))
  /\ UNCHANGED <<settings, data, edits, vault, remote, entry, markdownFiles, files,
                 obsidianSyncFolderId>>

\* addKnowledgeFile returns to uploadFile (main.ts 208-213), and the loop goes on
AddKnowledgeFileReturns(p, o) ==
  /\ pc[p] = "await_addKnowledgeFile"
  /\ LET r == uploadFile(markdownFiles[p][idx[p]], o)
     IN  IF r.raised
         THEN Abort(p) /\ UNCHANGED idx
         ELSE ForLoop(p, idx[p] + 1, obsidianSyncFolderId[p], notices[p] \o r.notices, calls[p],
                      Returned(uploadFileCalls[p], idx[p],
                               IF o.thrown THEN "failed" ELSE "succeeded"))
  /\ UNCHANGED <<settings, data, edits, vault, remote, entry, markdownFiles, files,
                 obsidianSyncFolderId>>

\* the command's own fetchFiles returns (main.ts 69-72)
CommandFetchFilesReturns(p, o) ==
  /\ pc[p] = "await_command_fetchFiles"
  /\ LET r == fetchFiles(o)
     IN  IF r.raised
         THEN Abort(p)
         ELSE /\ pc' = [pc EXCEPT ![p] = "done"]
              /\ inflight' = [inflight EXCEPT ![p] = NoRequest]
              /\ notices' = [notices EXCEPT ![p] =
                   notices[p] \o r.notices \o <<"Folders", "Sync complete.">>]
              /\ UNCHANGED <<calls, uploadFileCalls>>
  /\ UNCHANGED <<settings, data, edits, vault, remote, entry, local>>

\* the callback has ended; the command or the icon can be used again
Again(p) ==
  /\ pc[p] \in {"done", "aborted"}
  /\ pc' = [pc EXCEPT ![p] = "idle"]
  /\ entry' = [entry EXCEPT ![p] = "none"]
  /\ markdownFiles' = [markdownFiles EXCEPT ![p] = <<>>]
  /\ files' = [files EXCEPT ![p] = <<>>]
  /\ obsidianSyncFolderId' = [obsidianSyncFolderId EXCEPT ![p] = NULL]
  /\ idx' = [idx EXCEPT ![p] = 0]
  /\ calls' = [calls EXCEPT ![p] = <<>>]
  /\ uploadFileCalls' = [uploadFileCalls EXCEPT ![p] = <<>>]
  /\ notices' = [notices EXCEPT ![p] = <<>>]
  /\ UNCHANGED <<settings, data, edits, vault, remote, inflight>>

\* the settings tab's onChange (main.ts 253-256)
OnChange(value) ==
  /\ edits < MaxEdits
  /\ value # settings.apiKey
  /\ settings' = [settings EXCEPT !.apiKey = value]
  /\ data' = settings'
  /\ edits' = edits + 1
  /\ UNCHANGED <<vault, remote, pc, entry, local, inflight, calls, uploadFileCalls, notices>>

SyncStarts == \E p \in Procs, e \in {"command", "ribbon"} : Start(p, e)

ListingAnswered == \E p \in Procs, o \in ListOutcomes : FetchFilesReturns(p, o)

CreationAnswered ==
  \E p \in Procs, a \in CreateFolderOutcomes : CreateFolderReturns(p, a[1], a[2])

ReadAnswered ==
  \E p \in Procs :
    /\ pc[p] = "await_read"
    /\ \E o \in ReadOutcomes(markdownFiles[p][idx[p]]) : ReadReturns(p, o)

UploadAnswered == \E p \in Procs, o \in UploadOutcomes : AddKnowledgeFileReturns(p, o)

CommandListingAnswered == \E p \in Procs, o \in ListOutcomes : CommandFetchFilesReturns(p, o)

SyncEnds == \E p \in Procs : Again(p)

SettingsEdited == \E value \in ApiKeys : OnChange(value)

Next ==
  \/ SyncStarts
  \/ ListingAnswered
  \/ CreationAnswered
  \/ ReadAnswered
  \/ UploadAnswered
  \/ CommandListingAnswered
  \/ SyncEnds

\* the syncs, and the settings tab used while they run
NextSettings == Next \/ SettingsEdited

\* sync invocations one after the other, the settings left alone
Spec == Init /\ [][Next]_vars

\* sync invocations one after the other, the API key edited at any time
SpecSettings == InitSmall /\ [][NextSettings]_vars

\* sync invocations that overlap
SpecOverlap == InitOverlap /\ [][Next]_vars

\* uploadFile on any document
SpecUploadFile == InitUploadFile /\ [][Next]_vars

\* the call the invocation p awaits returns
Answered(p) ==
  \/ \E o \in ListOutcomes : FetchFilesReturns(p, o)
  \/ \E a \in CreateFolderOutcomes : CreateFolderReturns(p, a[1], a[2])
  \/ /\ pc[p] = "await_read"
     /\ \E o \in ReadOutcomes(markdownFiles[p][idx[p]]) : ReadReturns(p, o)
  \/ \E o \in UploadOutcomes : AddKnowledgeFileReturns(p, o)
  \/ \E o \in ListOutcomes : CommandFetchFilesReturns(p, o)

\* every call awaited returns in the end, with a result or an error
EveryCallReturns == \A p \in Procs : WF_vars(Answered(p))

\* the syncs, every call returning in the end
SpecLive == InitSmall /\ [][Next]_vars /\ EveryCallReturns

(***************************************************************************)
(* What the properties speak of.                                           *)
(***************************************************************************)
IsSyncFolder(item) == item.file_name = "obsidian-sync" /\ item.is_folder

HasSyncFolder(fs) == \E i \in 1..Len(fs) : IsSyncFolder(fs[i])

\* the requests exploreAndUpload has issued, of each kind
ListCalls(p) == SelectSeq(calls[p], LAMBDA r : IsList(r) /\ r.caller = "exploreAndUpload")
CreateFolderCalls(p) == SelectSeq(calls[p], IsCreateFolder)
UploadCalls(p) == SelectSeq(calls[p], IsUpload)

\* fetchFiles has returned to exploreAndUpload
ListingReturned(p) ==
  pc[p] \in {"await_createFolder", "await_read", "await_addKnowledgeFile",
             "await_command_fetchFiles", "done"}

\* exploreAndUpload has ended
ExploreEnded(p) == pc[p] \in {"await_command_fetchFiles", "done", "aborted"}

\* how many notices precede those of exploreAndUpload
Preamble(p) == IF entry[p] = "command" THEN 2 ELSE 0

\* the listing of exploreAndUpload failed: fetchFiles reported a failure
ListingFailed(p) ==
  /\ Len(notices[p]) > Preamble(p)
  /\ notices[p][Preamble(p) + 1] \in
       {"Error fetching files. Check console for details.", "Failed to fetch files"}

\* the number of markdown documents of the vault
LocalDocuments == Cardinality({i \in 1..Len(vault) : vault[i].extension = "md"})

IsPrefix(s, t) == Len(s) <= Len(t) /\ \A i \in 1..Len(s) : s[i] = t[i]

(***************************************************************************)
(* C1: when the listing fetchFiles returned holds a folder named           *)
(* "obsidian-sync", the invocation issues no create-folder call and the    *)
(* resolved folder id is the id of such a listed folder.                   *)
(***************************************************************************)
C1_ExistingFolderReused ==
  \A p \in Procs :
    ListingReturned(p) /\ HasSyncFolder(files[p]) =>
      /\ CreateFolderCalls(p) = <<>>
      /\ \E i \in 1..Len(files[p]) :
           IsSyncFolder(files[p][i]) /\ obsidianSyncFolderId[p] = files[p][i].id

C1_Witness ==
  \E p \in Procs :
    /\ pc[p] = "done"
    /\ Len(files[p]) = 2 /\ ~IsSyncFolder(files[p][1]) /\ IsSyncFolder(files[p][2])
    /\ obsidianSyncFolderId[p] = "f1"
    /\ CreateFolderCalls(p) = <<>>

(***************************************************************************)
(* C2: when the listing fetchFiles returned holds no folder named          *)
(* "obsidian-sync" (a file of that name only, or nothing), the invocation  *)
(* issues exactly one create-folder call, whose payload reads file_name =  *)
(* "obsidian-sync", parent_id = null, is_folder = true.                    *)
(***************************************************************************)
C2_MissingFolderCreatedOnce ==
  \A p \in Procs :
    ListingReturned(p) /\ ~HasSyncFolder(files[p]) =>
      /\ Len(CreateFolderCalls(p)) = 1
      /\ JSONparse(CreateFolderCalls(p)[1].knowledge_data) =
           [parent_id |-> NULL, file_name |-> "obsidian-sync", is_folder |-> TRUE]

C2_Witness ==
  \E p \in Procs :
    /\ pc[p] = "done"
    /\ Len(files[p]) = 1 /\ files[p][1].file_name = "obsidian-sync" /\ ~files[p][1].is_folder
    /\ Len(CreateFolderCalls(p)) = 1

(***************************************************************************)
(* C3: with N local documents, an invocation whose folder resolution       *)
(* succeeded has called uploadFile exactly N times when it ends, once per  *)
(* document in order, each time with the resolved folder id as parent id,  *)
(* whichever of the uploads failed; every request posted carries that id.  *)
(***************************************************************************)
C3_OneUploadPerDocument ==
  \A p \in Procs :
    ExploreEnded(p) /\ Truthy(obsidianSyncFolderId[p]) =>
      /\ Len(markdownFiles[p]) = LocalDocuments
      /\ Len(uploadFileCalls[p]) = LocalDocuments
      /\ \A i \in 1..Len(uploadFileCalls[p]) :
           /\ uploadFileCalls[p][i].file = markdownFiles[p][i]
           /\ uploadFileCalls[p][i].parentId = obsidianSyncFolderId[p]
           /\ uploadFileCalls[p][i].outcome \in {"succeeded", "failed"}
      /\ Len(UploadCalls(p)) <= LocalDocuments
      /\ \A i \in 1..Len(UploadCalls(p)) :
           JSONparse(UploadCalls(p)[i].knowledge_data).parent_id = obsidianSyncFolderId[p]

C3_Witness ==
  \E p \in Procs :
    /\ pc[p] = "done"
    /\ Truthy(obsidianSyncFolderId[p])
    /\ LocalDocuments = 2
    /\ Len(uploadFileCalls[p]) = 2
    /\ uploadFileCalls[p][1].outcome = "failed"
    /\ uploadFileCalls[p][2].outcome = "succeeded"
    /\ Len(UploadCalls(p)) = 2

(***************************************************************************)
(* C4: a failed upload is caught inside uploadFile: no invocation is ever  *)
(* aborted, and once the upload of the k-th document has failed, with      *)
(* k < N, the upload of the next document has been attempted.              *)
(***************************************************************************)
C4_FailureIsolated ==
  \A p \in Procs :
    /\ pc[p] # "aborted"
    /\ \A k \in 1..Len(uploadFileCalls[p]) :
         uploadFileCalls[p][k].outcome = "failed" /\ k < Len(markdownFiles[p]) =>
           /\ Len(uploadFileCalls[p]) > k
           /\ uploadFileCalls[p][k + 1].file = markdownFiles[p][k + 1]
    /\ pc[p] = "done" /\ uploadFileCalls[p] # <<>> =>
         Len(uploadFileCalls[p]) = Len(markdownFiles[p])

C4_Witness ==
  \E p \in Procs :
    /\ pc[p] = "await_addKnowledgeFile"
    /\ idx[p] = 2
    /\ uploadFileCalls[p][1].outcome = "failed"
    /\ Len(UploadCalls(p)) = 2

(***************************************************************************)
(* C5: an invocation whose folder resolution yields no id calls uploadFile *)
(* for no document, posts no upload, and ends after the notice of the      *)
(* failure.                                                                *)
(***************************************************************************)
C5_NoFolderNoUpload ==
  \A p \in Procs :
    /\ uploadFileCalls[p] # <<>> \/ UploadCalls(p) # <<>> \/ pc[p] \in {"await_read", "await_addKnowledgeFile"}
         => Truthy(obsidianSyncFolderId[p])
    /\ ExploreEnded(p) /\ ~Truthy(obsidianSyncFolderId[p]) =>
         /\ pc[p] # "aborted"
         /\ uploadFileCalls[p] = <<>>
         /\ UploadCalls(p) = <<>>
         /\ \E i \in 1..Len(notices[p]) :
              /\ notices[p][i] = "Failed to determine folder ID for uploads."
              /\ entry[p] = "ribbon" => i = Len(notices[p])

C5_Witness ==
  \E p \in Procs :
    /\ pc[p] = "done"
    /\ entry[p] = "ribbon"
    /\ obsidianSyncFolderId[p] = NULL
    /\ Len(CreateFolderCalls(p)) = 1
    /\ LocalDocuments = 2
    /\ notices[p][Len(notices[p])] = "Failed to determine folder ID for uploads."

(***************************************************************************)
(* C6: folder creation is idempotent: a remote that holds at most one      *)
(* folder named "obsidian-sync" never comes to hold more than one.         *)
(***************************************************************************)
SyncFolders(r) == Cardinality({i \in 1..Len(r) : IsSyncFolder(r[i])})

C6_NoDuplicateFolder == [][SyncFolders(remote) <= 1 => SyncFolders(remote') <= 1]_vars

(***************************************************************************)
(* C7: with no local document, an invocation posts no upload, and still    *)
(* lists the remote once and reconciles the folder once: one create-folder *)
(* call when no folder named "obsidian-sync" is listed, none otherwise.    *)
(***************************************************************************)
C7_EmptyVaultStillReconciles ==
  \A p \in Procs :
    ExploreEnded(p) /\ LocalDocuments = 0 =>
      /\ pc[p] # "aborted"
      /\ uploadFileCalls[p] = <<>>
      /\ UploadCalls(p) = <<>>
      /\ Len(ListCalls(p)) = 1
      /\ Len(CreateFolderCalls(p)) = IF HasSyncFolder(files[p]) THEN 0 ELSE 1

C7_Witness ==
  \E p \in Procs :
    /\ pc[p] = "done"
    /\ LocalDocuments = 0
    /\ vault # <<>>
    /\ Truthy(obsidianSyncFolderId[p])
    /\ Len(ListCalls(p)) = 1
    /\ Len(CreateFolderCalls(p)) = 1

(***************************************************************************)
(* C8: fetchFiles never raises: it returns the items of a response of      *)
(* status 200, and the empty sequence on another status or an error; so    *)
(* exploreAndUpload takes a failed listing for a remote without items.     *)
(***************************************************************************)
C8_FetchFilesNeverRaises ==
  /\ \A o \in ListOutcomes :
       /\ ~fetchFiles(o).raised
       /\ fetchFiles(o).value = IF ~o.thrown /\ o.status = 200 THEN o.json ELSE <<>>
  /\ \A p \in Procs :
       /\ pc[p] # "aborted"
       /\ ListingReturned(p) =>
            IF ListingFailed(p)
            THEN files[p] = <<>> /\ Len(CreateFolderCalls(p)) = 1
            ELSE IsPrefix(files[p], remote)

C8_Witness ==
  \E p \in Procs :
    /\ pc[p] = "await_createFolder"
    /\ ListingFailed(p)
    /\ files[p] = <<>>
    /\ HasSyncFolder(remote)

(***************************************************************************)
(* C9: createFolder never raises: it returns the id of the response when   *)
(* the status is 200, and null on another status or an error; an id it     *)
(* returned is the id of a folder "obsidian-sync" the remote holds.        *)
(***************************************************************************)
C9_CreateFolderIdOrNull ==
  /\ \A a \in CreateFolderOutcomes :
       /\ ~createFolder("obsidian-sync", a[1]).raised
       /\ createFolder("obsidian-sync", a[1]).value =
            IF ~a[1].thrown /\ a[1].status = 200 THEN a[1].json.id ELSE NULL
  /\ \A p \in Procs :
       /\ pc[p] # "aborted"
       /\ ListingReturned(p) /\ pc[p] # "await_createFolder" /\ CreateFolderCalls(p) # <<>> =>
            \/ obsidianSyncFolderId[p] \in {NULL, UNDEFINED}
            \/ \E i \in 1..Len(remote) :
                 /\ remote[i].id = obsidianSyncFolderId[p]
                 /\ IsSyncFolder(remote[i])
                 /\ remote[i].parent_id = NULL

C9_Witness ==
  \E p \in Procs :
    /\ pc[p] = "await_read"
    /\ Len(CreateFolderCalls(p)) = 1
    /\ obsidianSyncFolderId[p] = "n1"
    /\ \E i \in 1..Len(remote) : remote[i].id = "n1"

Running(p) == pc[p] \notin {"off", "idle", "done", "aborted"}

\* no call is made twice in one invocation
NoRetry(p) ==
  /\ Len(ListCalls(p)) <= 1
  /\ Len(CreateFolderCalls(p)) <= 1
  /\ Len(uploadFileCalls[p]) <= Len(markdownFiles[p])
  /\ \A i, j \in 1..Len(uploadFileCalls[p]) :
       uploadFileCalls[p][i].file = uploadFileCalls[p][j].file => i = j
  /\ Len(UploadCalls(p)) <= Len(uploadFileCalls[p])
  /\ \A i, j \in 1..Len(UploadCalls(p)) :
       UploadCalls(p)[i].file.name = UploadCalls(p)[j].file.name => i = j

C11_SyncTerminates ==
  /\ [](\A p \in Procs : pc[p] # "aborted" /\ NoRetry(p))
  /\ [][\A p \in Procs : Running(p) /\ ~Running(p)' => pc'[p] = "done"]_vars
  /\ \A p \in Procs : Running(p) ~> (pc[p] = "done")

C11_Witness ==
  \E p \in Procs :
    /\ pc[p] = "done"
    /\ entry[p] = "command"
    /\ Len(CreateFolderCalls(p)) = 1
    /\ Len(uploadFileCalls[p]) = 2
    /\ uploadFileCalls[p][1].outcome = "failed"
    /\ Len(UploadCalls(p)) = 1

(***************************************************************************)
(* C12: uploads are issued one at a time in enumeration order, the upload  *)
(* call for document k+1 only after the one for document k has succeeded   *)
(* or failed, and at no time is more than one network operation in flight. *)
(***************************************************************************)
InFlight == {p \in Procs : inflight[p] # NoRequest}

\* the uploadFile calls of one invocation follow the enumeration, each one
\* made when the one before has completed, and the invocation waits for at
\* most one request, the last it issued
UploadsInTurn(p) ==
  /\ Len(uploadFileCalls[p]) <= Len(markdownFiles[p])
  /\ \A k \in 1..Len(uploadFileCalls[p]) :
       /\ uploadFileCalls[p][k].file = markdownFiles[p][k]
       /\ k < Len(uploadFileCalls[p]) => uploadFileCalls[p][k].outcome # "pending"
  /\ inflight[p] # NoRequest =>
       /\ calls[p] # <<>>
       /\ inflight[p] = calls[p][Len(calls[p])]
       /\ pc[p] \in {"await_fetchFiles", "await_createFolder", "await_addKnowledgeFile",
                     "await_command_fetchFiles"}
  /\ IsUpload(inflight[p]) =>
       /\ uploadFileCalls[p] # <<>>
       /\ uploadFileCalls[p][Len(uploadFileCalls[p])].outcome = "pending"
       /\ inflight[p].file.name = FileName(uploadFileCalls[p][Len(uploadFileCalls[p])].file)

C12_OneAtATime ==
  /\ \A p \in Procs : UploadsInTurn(p)
  /\ Cardinality(InFlight) <= 1

\* C12, amended: within one invocation uploads are issued one at a time in
\* enumeration order, the uploadFile call for document k+1 made only when the
\* one for document k has completed, and the invocation has at most one
\* network operation in flight, the last it issued; overlapping invocations
\* each have their own.
C12_EachInvocationInTurn == \A p \in Procs : UploadsInTurn(p)

\* two invocations wait for their uploads at once, one for its first
\* document and one for its second
C12_Witness ==
  \E p, q \in Procs :
    /\ IsUpload(inflight[p]) /\ IsUpload(inflight[q])
    /\ Len(uploadFileCalls[p]) = 1
    /\ Len(uploadFileCalls[q]) = 2
    /\ uploadFileCalls[q][1].outcome \in {"succeeded", "failed"}
    /\ uploadFileCalls[q][2].outcome = "pending"
    /\ uploadFileCalls[q][2].file = markdownFiles[q][2]

(***************************************************************************)
(* C13: sync invocations are not serialized: a second invocation may start *)
(* while a first one is suspended at a network call, and when both have    *)
(* listed a remote without a folder named "obsidian-sync", each issues its *)
(* own create-folder call, which leaves two folders of that name on the    *)
(* remote when both calls succeed.                                         *)
(***************************************************************************)
\* the remote holds a folder named "obsidian-sync" of this id
Holds(r, id) == \E i \in 1..Len(r) : IsSyncFolder(r[i]) /\ r[i].id = id

\* createFolder has returned to exploreAndUpload
CreationReturned(p) == ListingReturned(p) /\ pc[p] # "await_createFolder"

C13_SyncsNotSerialized ==
  \A p, q \in Procs : p # q =>
    /\ Running(p) /\ pc[q] = "idle" =>
         ENABLED Start(q, "ribbon") /\ ENABLED Start(q, "command")
    /\ /\ ListingReturned(p) /\ ~HasSyncFolder(files[p])
       /\ ListingReturned(q) /\ ~HasSyncFolder(files[q])
       => /\ Len(CreateFolderCalls(p)) = 1
          /\ Len(CreateFolderCalls(q)) = 1
          /\ /\ CreationReturned(p) /\ Truthy(obsidianSyncFolderId[p])
             /\ CreationReturned(q) /\ Truthy(obsidianSyncFolderId[q])
             => /\ obsidianSyncFolderId[p] # obsidianSyncFolderId[q]
                /\ Holds(remote, obsidianSyncFolderId[p])
                /\ Holds(remote, obsidianSyncFolderId[q])
                /\ SyncFolders(remote) >= 2

\* both invocations listed the empty remote while the other was suspended,
\* both created their folder, and the remote holds the two
C13_Witness ==
  \E p, q \in Procs :
    /\ p # q
    /\ pc[p] = "done" /\ pc[q] = "done"
    /\ files[p] = <<>> /\ files[q] = <<>>
    /\ ~ListingFailed(p) /\ ~ListingFailed(q)
    /\ Len(CreateFolderCalls(p)) = 1 /\ Len(CreateFolderCalls(q)) = 1
    /\ obsidianSyncFolderId[p] = "n1" /\ obsidianSyncFolderId[q] = "n2"
    /\ SyncFolders(remote) = 2

(***************************************************************************)
(* C14: within one invocation the phases are ordered and never revisited:  *)
(* the listing call completes before any create-folder call is issued, the *)
(* create-folder call, when there is one, completes before any upload call *)
(* is issued, and after the first upload call exploreAndUpload issues no   *)
(* listing and no create-folder call.                                      *)
(***************************************************************************)
IsExploreList(r) == IsList(r) /\ r.caller = "exploreAndUpload"

C14_PhasesInOrder ==
  \A p \in Procs :
    /\ pc[p] = "await_fetchFiles" =>
         /\ Len(calls[p]) = 1 /\ IsExploreList(calls[p][1])
         /\ uploadFileCalls[p] = <<>>
    /\ pc[p] = "await_createFolder" =>
         /\ Len(calls[p]) = 2
         /\ IsExploreList(calls[p][1]) /\ IsCreateFolder(calls[p][2])
         /\ uploadFileCalls[p] = <<>>
    /\ uploadFileCalls[p] # <<>> => ListingReturned(p) /\ CreationReturned(p)
    /\ \A j \in 1..Len(calls[p]) :
         /\ IsExploreList(calls[p][j]) => j = 1
         /\ IsCreateFolder(calls[p][j]) => j = 2 /\ IsExploreList(calls[p][1])
         /\ IsUpload(calls[p][j]) =>
              /\ j > 1 /\ IsExploreList(calls[p][1])
              /\ \A i \in j..Len(calls[p]) :
                   ~IsExploreList(calls[p][i]) /\ ~IsCreateFolder(calls[p][i])

\* an invocation went through the three phases: it listed, created the
\* folder and uploaded two documents
C14_Witness ==
  \E p \in Procs :
    /\ pc[p] = "done"
    /\ entry[p] = "ribbon"
    /\ Len(calls[p]) = 4
    /\ IsExploreList(calls[p][1])
    /\ IsCreateFolder(calls[p][2])
    /\ IsUpload(calls[p][3])
    /\ IsUpload(calls[p][4])

(***************************************************************************)
(* C15: when the listing holds several folders named "obsidian-sync", the  *)
(* invocation resolves to the id of the first of them, in the order the    *)
(* listing call returned them, and issues no create-folder call.           *)
(***************************************************************************)
\* the positions of the folders named "obsidian-sync" in a listing
SyncFolderAt(fs) == {i \in 1..Len(fs) : IsSyncFolder(fs[i])}

C15_FirstMatchWins ==
  \A p \in Procs :
    ListingReturned(p) /\ Cardinality(SyncFolderAt(files[p])) >= 2 =>
      /\ CreateFolderCalls(p) = <<>>
      /\ \E i \in SyncFolderAt(files[p]) :
           /\ \A j \in SyncFolderAt(files[p]) : i <= j
           /\ obsidianSyncFolderId[p] = files[p][i].id

\* two such folders of different usable ids were listed, and the invocation
\* uploaded into the first
C15_Witness ==
  \E p \in Procs :
    /\ pc[p] = "done"
    /\ Len(files[p]) = 2
    /\ IsSyncFolder(files[p][1]) /\ IsSyncFolder(files[p][2])
    /\ Truthy(files[p][1].id) /\ Truthy(files[p][2].id)
    /\ files[p][1].id # files[p][2].id
    /\ obsidianSyncFolderId[p] = files[p][1].id
    /\ CreateFolderCalls(p) = <<>>
    /\ Len(uploadFileCalls[p]) >= 1
    /\ uploadFileCalls[p][1].parentId = files[p][1].id

(***************************************************************************)
(* C16: a sync invocation never writes the settings: every step of         *)
(* exploreAndUpload, fetchFiles, createFolder and uploadFile leaves the    *)
(* apiKey unchanged, and the only step that changes it is the edit in the  *)
(* settings tab, which also persists it.                                   *)
(***************************************************************************)
\* a step of some invocation: its position, its requests or its calls change
SyncStep ==
  \/ pc' # pc
  \/ calls' # calls
  \/ inflight' # inflight
  \/ uploadFileCalls' # uploadFileCalls
  \/ notices' # notices
  \/ local' # local

C16_OnlyTheTabWritesSettings ==
  [][/\ SyncStep => settings' = settings /\ data' = data /\ edits' = edits
     /\ settings' # settings =>
          /\ ~SyncStep
          /\ edits' = edits + 1
          /\ data' = settings']_vars

\* the key was edited while an invocation was suspended, and is persisted
C16_Witness ==
  /\ edits = 1
  /\ data = settings
  /\ \E p \in Procs :
       /\ Running(p)
       /\ calls[p][1].authorization # Bearer(settings.apiKey)

(***************************************************************************)
(* C17: every list, create-folder and upload request carries as bearer     *)
(* token the apiKey the settings hold when the request is issued: an edit  *)
(* of the settings between two requests of a running sync changes the      *)
(* token of the requests issued after it and of none issued before it.     *)
(***************************************************************************)
Last(s) == s[Len(s)]

C17_TokenOfTheMoment ==
  [][\A p \in Procs :
       calls'[p] # calls[p] =>
         \/ calls'[p] = <<>>
         \/ /\ \/ Len(calls'[p]) = 1
               \/ Len(calls'[p]) = Len(calls[p]) + 1 /\ IsPrefix(calls[p], calls'[p])
            /\ settings' = settings
            /\ \/ IsList(Last(calls'[p]))
               \/ IsCreateFolder(Last(calls'[p]))
               \/ IsUpload(Last(calls'[p]))
            /\ Last(calls'[p]).authorization = "Bearer " \o settings.apiKey
            /\ inflight'[p] = Last(calls'[p])]_vars

\* the key was edited between the listing and an upload of one invocation:
\* the listing went out with the old key, the upload with the new one
C17_Witness ==
  \E p \in Procs :
    /\ edits = 1
    /\ Len(calls[p]) >= 2
    /\ IsList(calls[p][1])
    /\ IsUpload(Last(calls[p]))
    /\ calls[p][1].authorization # "Bearer " \o settings.apiKey
    /\ Last(calls[p]).authorization = "Bearer " \o settings.apiKey

(***************************************************************************)
(* C18: no upload call of exploreAndUpload carries a null, undefined or    *)
(* empty parent_id: when the resolved folder id is falsy (the creation     *)
(* failed, it answered 200 without an id, or the listed folder has an      *)
(* empty id) the loop is skipped, and when the folder was listed no        *)
(* create-folder call is issued as a fallback.                             *)
(***************************************************************************)
Unusable == {NULL, UNDEFINED, ""}

C18_NoUploadWithoutParent ==
  \A p \in Procs :
    /\ \A k \in 1..Len(uploadFileCalls[p]) :
         /\ uploadFileCalls[p][k].parentId \notin Unusable
         /\ uploadFileCalls[p][k].parentId = obsidianSyncFolderId[p]
    /\ \A k \in 1..Len(UploadCalls(p)) :
         /\ JSONparse(UploadCalls(p)[k].knowledge_data).parent_id \notin Unusable
         /\ JSONparse(UploadCalls(p)[k].knowledge_data).parent_id = obsidianSyncFolderId[p]
    /\ ListingReturned(p) /\ CreationReturned(p) /\ obsidianSyncFolderId[p] \in Unusable =>
         /\ uploadFileCalls[p] = <<>>
         /\ UploadCalls(p) = <<>>
         /\ pc[p] \in {"await_command_fetchFiles", "done"}
         /\ HasSyncFolder(files[p]) => CreateFolderCalls(p) = <<>>

\* the first folder listed under the name has an empty id: with a document
\* to upload, the invocation ended without a creation and without an upload
C18_Witness ==
  \E p \in Procs :
    /\ pc[p] = "done"
    /\ LocalDocuments >= 1
    /\ markdownFiles[p] # <<>>
    /\ files[p] # <<>>
    /\ IsSyncFolder(files[p][1]) /\ files[p][1].id = ""
    /\ obsidianSyncFolderId[p] = ""
    /\ Len(calls[p]) = 1
    /\ uploadFileCalls[p] = <<>>

====
